---- MODULE Spec2Model ----
(***************************************************************************)
(* A model of yukunfeng/nnfl: the FNN orchestrator (src/models/fnn.py),    *)
(* the DataLoader (src/utils/data_loader.py) and the sentence helpers      *)
(* (src/utils/tools.py).                                                   *)
(*                                                                         *)
(* The layer arithmetic (lib/layer.py) and the metrics (lib/metrics.py)    *)
(* are not part of the sources; they are modelled from the specification. *)
(* Probabilities are abstracted to the levels 0 (exactly 0.0) and 1        *)
(* (positive); the function the network computes for the current          *)
(* parameters is the variable net, chosen afresh whenever a parameter or   *)
(* a word vector is written.  A gradient is abstracted to the number of    *)
(* batch rows that contribute to it.                                       *)
(***************************************************************************)
EXTENDS Integers, Sequences, FiniteSets, TLC

VARIABLES
    \* ---- FNN (src/models/fnn.py) ----
    x,            \* self.x: the training input, a sequence of rows
    label_y,      \* self.label_y: the raw labels, one per row
    y,            \* self.y: the dense labels
    label_to_y,   \* self.label_to_y
    y_to_label,   \* self.y_to_label
    n_o,          \* self.n_o
    word2vec,     \* self.word2vec: token index -> word vector
    up_wordvec,   \* self.up_wordvec
    n_hs,         \* self.n_hs: the widths of the hidden layers
    use_bias,     \* self.use_bias
    params,       \* self.params: one record per parameter, in construction order
    gparams,      \* self.gparams: <<>> before the first backprop, else <<list>>
    forward_out,  \* self.forward_out: <<>> while the attribute is missing, else
                  \* <<cache>>: the cached output abstracted to its number of rows,
                  \* with the history flag `used` (a backprop has read it)
    net,          \* the function the layers compute: row -> probability row
    pc,           \* position inside minibatch_train, "idle" outside
    mt,           \* the locals of minibatch_train
    trained,      \* the batch_train calls of the current epoch, as index ranges
    trains,       \* number of public training calls made so far
    res,          \* outcome of the last public call
    \* ---- zero-one loss and the stopping test (fnn.py 198-207) ----
    zl,
    \* ---- DataLoader.__init__ (src/utils/data_loader.py) ----
    dl,
    \* ---- DataLoader.get_data (src/utils/data_loader.py) ----
    gd,
    \* ---- a call of a helper of src/utils/tools.py ----
    tl,
    \* ---- FNN.batch_train and FNN.backprop statement by statement ----
    bt

fnnVars == <<x, label_y, y, label_to_y, y_to_label, n_o, word2vec, up_wordvec,
             n_hs, use_bias,
             params, gparams, forward_out, net, pc, mt, trained, trains, res>>
others == <<zl, dl, gd, tl, bt>>
vars == <<fnnVars, others>>

(***************************************************************************)
(* Bounds of the model.                                                    *)
(***************************************************************************)
MaxN == 3          \* training-set sizes 1..MaxN
MaxEpochs == 2     \* max_epochs in 0..MaxEpochs
MaxTrain == 1      \* public batch_train / minibatch_train calls per behaviour

Tokens == {0, 1}           \* the rows of the word-vector table
Labels == {5, 9}           \* raw labels: not dense, not starting at 0
Rates == {1}               \* learning rates
Probs == {0, 1}            \* 0: exactly 0.0;  1: a positive probability

(***************************************************************************)
(* Helpers.                                                                *)
(***************************************************************************)
Min(a, b) == IF a <= b THEN a ELSE b
Max(a, b) == IF a >= b THEN a ELSE b
Range(s) == {s[i] : i \in 1..Len(s)}
None == <<>>
Some(v) == <<v>>

\* Python's s[a:b] for 0 <= a, with b clamped to len(s).
PySlice(s, a, b) == SubSeq(s, a + 1, Min(b, Len(s)))

\* A row of the input matrix: one token index.
Rows == {<<t>> : t \in Tokens}

\* The probability rows a softmax over k classes can produce: at least one
\* class has a positive probability.
ProbRow(k) == {p \in [0..(k - 1) -> Probs] : \E c \in 0..(k - 1) : p[c] > 0}
Nets(k) == [Rows -> ProbRow(k)]
\* After construction the weights are small and finite: every probability is positive.
InitNets(k) == {f \in Nets(k) : \A r \in Rows : \A c \in 0..(k - 1) : f[r][c] > 0}

\* numpy's argmax along axis 1: the first index holding the maximum.
argmax(p) ==
    CHOOSE c \in DOMAIN p :
        /\ \A d \in DOMAIN p : p[d] <= p[c]
        /\ \A d \in DOMAIN p : d < c => p[d] < p[c]

(***************************************************************************)
(* FNN.__init__: the label normalisation.                                  *)
(***************************************************************************)
\* label_set = set(self.label_y)
label_set(ly) == Range(ly)

\* The orders in which iterating a Python set can yield its elements.
SetOrders(S) ==
    {o \in [1..Cardinality(S) -> S] : \A i, j \in 1..Cardinality(S) : i # j => o[i] # o[j]}

\* Variant: the dense indices counted from 1.
zip_dict_from_one(order) ==
    [l \in Range(order) |-> CHOOSE i \in 1..Len(order) : order[i] = l]

\* y_set = np.arange(0, len(label_set)); dict(zip(label_set, y_set)), with the
\* set iterated in the order `order`: the i-th element (from 0) maps to i.
zip_dict(order) ==
    [l \in Range(order) |-> (CHOOSE i \in 1..Len(order) : order[i] = l) - 1]

\* self.y = np.array([label_to_y[label] for label in self.label_y])
dense_y(ly, l2y) == [i \in 1..Len(ly) |-> l2y[ly[i]]]

\* self.y_to_label = {k: v for v, k in label_to_y.items()}
invert_dict(l2y) ==
    [k \in {l2y[l] : l \in DOMAIN l2y} |-> CHOOSE l \in DOMAIN l2y : l2y[l] = k]

\* The parameters a layer owns: a weight, and a bias when use_bias is set.
hidden_names ==
    << <<"hidden1_w", "hidden1_b">>, <<"hidden2_w", "hidden2_b">>,
       <<"hidden3_w", "hidden3_b">> >>
softmax_names == <<"softmax_w", "softmax_b">>
layer_param_names(wb) == IF use_bias THEN wb ELSE <<wb[1]>>

\* self.layers, lines 73-95: one hidden layer per width of n_hs, in the order
\* of n_hs, then the softmax layer.
layers ==
    [i \in 1..(Len(n_hs) + 1) |->
        IF i <= Len(n_hs)
        THEN [kind |-> "hidden", n_o |-> n_hs[i],
              pnames |-> layer_param_names(hidden_names[i])]
        ELSE [kind |-> "softmax", n_o |-> n_o,
              pnames |-> layer_param_names(softmax_names)]]

\* self.param_names, lines 85 and 94: every layer's names appended in
\* construction order.
RECURSIVE param_names_upto(_)
param_names_upto(k) ==
    IF k = 0 THEN <<>> ELSE param_names_upto(k - 1) \o layers[k].pnames
param_names == param_names_upto(Len(layers))
\* self.params, lines 84 and 93, aligned with self.param_names.
init_params == [i \in 1..Len(param_names) |-> [name |-> param_names[i], val |-> 0]]

(***************************************************************************)
(* The layers, modelled from the specification.                            *)
(***************************************************************************)
\* embedding_layer.forward followed by every layer's forward: one probability
\* row per input row.
LayersForward(xb) == [i \in 1..Len(xb) |-> net[xb[i]]]

\* layer.gparams after layer.backprop on a batch of `rows` rows: one gradient
\* per parameter of the layer, in the layer's parameter order.
layer_gparams(layer, rows) ==
    [i \in 1..Len(layer.pnames) |-> [name |-> layer.pnames[i], val |-> rows]]

\* The gradient reaching the embedding layer: one unit per batch row.
input_gradient(rows) == [i \in 1..rows |-> 1]

\* embedding_layer.backprop(gx): the distinct token indices of the cached
\* input in ascending order, each with its gradient summed over all its
\* occurrences.
touched(ex) == {t \in Tokens : \E i \in 1..Len(ex) : t \in Range(ex[i])}
occurrences(ex, gx, t) ==
    LET width == IF ex = <<>> THEN 0 ELSE Len(ex[1])
    IN Cardinality({ij \in (1..Len(gx)) \X (1..width) : ex[ij[1]][ij[2]] = t})
RECURSIVE ascending(_)
ascending(S) ==
    IF S = {} THEN <<>>
    ELSE LET m == CHOOSE a \in S : \A b \in S : a <= b
         IN <<m>> \o ascending(S \ {m})
embedding_backprop(ex, gx) ==
    LET idx == ascending(touched(ex))
    IN [word_indexs |-> idx,
        gword_vectors |-> [k \in 1..Len(idx) |-> occurrences(ex, gx, idx[k])]]

\* metrics.zero_one_loss(y_true, y_pred): the fraction of differing positions,
\* kept as the pair <<numerator, denominator>>.
zero_one_loss(n_wrong, n_all) == <<n_wrong, n_all>>
mismatches(a, b) == Cardinality({i \in 1..Len(a) : a[i] # b[i]})

(***************************************************************************)
(* FNN: the values its methods compute.                                    *)
(***************************************************************************)
\* What the model keeps of a freshly cached output matrix: its number of rows;
\* no backprop has read it yet.
shape(py) == [rows |-> Len(py), used |-> FALSE]

\* py[np.arange(0, y.shape[0]), y]: the probability of each row's true class.
true_class_probs(py, yb) == [i \in 1..Len(yb) |-> py[i][yb[i]]]

\* cost: -np.sum(np.log(py[arange, y])).  np.log(0.0) is -inf (numpy warns
\* and goes on), so the sum is +inf; nothing raises.
cross_entropy(py, yb) ==
    IF \E i \in 1..Len(yb) : true_class_probs(py, yb)[i] = 0 THEN "inf" ELSE "finite"

\* Variant: the arg-max index returned without the inverse label mapping.
label_preds_dense(py) == [i \in 1..Len(py) |-> argmax(py[i])]

\* predict: py.argmax(axis=1) mapped through y_to_label.
label_preds_of(py) == [i \in 1..Len(py) |-> y_to_label[argmax(py[i])]]

\* backprop, lines 135-138: for layer in reversed(self.layers):
\*     self.gparams = layer.gparams + self.gparams
\* Variant: the layer's gradients are appended to the list.
append_gparams(lg, acc) == acc \o lg
\* line 138: self.gparams = layer.gparams + self.gparams
prepend_gparams(lg, acc) == lg \o acc
RECURSIVE backprop_loop(_, _, _)
backprop_loop(k, rows, acc) ==
    IF k = 0 THEN acc
    ELSE backprop_loop(k - 1, rows, prepend_gparams(layer_gparams(layers[k], rows), acc))
backprop_gparams(rows) == backprop_loop(Len(layers), rows, <<>>)

\* batch_train, lines 156-157: for gparam, param in zip(self.gparams, self.params):
\*     param -= lr * gparam
update_params(ps, gs, lr) ==
    [i \in 1..Len(ps) |->
        IF i <= Len(gs) THEN [ps[i] EXCEPT !.val = @ - lr * gs[i].val] ELSE ps[i]]

\* batch_train, lines 160-161: for word_index, gword_vector in zip(...):
\*     self.word2vec[word_index] -= lr * gword_vector
RECURSIVE update_wordvec(_, _, _, _)
update_wordvec(wv, idx, gw, lr) ==
    IF idx = <<>> \/ gw = <<>> THEN wv
    ELSE update_wordvec([wv EXCEPT ![Head(idx)] = @ - lr * Head(gw)],
                        Tail(idx), Tail(gw), lr)

\* Variant: the word vectors updated whatever up_wordvec says.
trained_wordvec_always(wv, ex, gx, lr) ==
    LET eb == embedding_backprop(ex, gx)
    IN update_wordvec(wv, eb.word_indexs, eb.gword_vectors, lr)

\* batch_train, lines 158-161.
trained_wordvec(wv, ex, gx, lr) ==
    IF up_wordvec
    THEN LET eb == embedding_backprop(ex, gx)
         IN update_wordvec(wv, eb.word_indexs, eb.gword_vectors, lr)
    ELSE wv

\* minibatch_train, line 205: abs(error - 0.0) <= 0.00001, on the fraction
\* error = <<k, n>>:  k / n <= 1 / TolInv.
TolInv == 100000
stop_test(error) == error[1] * TolInv <= error[2]

(***************************************************************************)
(* FNN: state after construction.                                          *)
(***************************************************************************)
NoRes == [op |-> "none", status |-> "ok", val |-> <<>>, aux |-> <<>>]
Result(op, status, val) == [op |-> op, status |-> status, val |-> val, aux |-> <<>>]
mtIdle == [lr |-> 0, minibatch |-> 0, max_epochs |-> 0, epoch |-> 0,
           batch_i |-> -1, n_batches |-> 0, cursor |-> 0, error |-> <<>>]

\* The training sets: row i holds token (i - 1) mod 2, so that a set of three
\* rows repeats a row; the labels are free.
TrainX(n) == [i \in 1..n |-> <<(i - 1) % Cardinality(Tokens)>>]

\* The label vectors: the two labels are interchangeable, so the first row has
\* label 5; either equal rows carry equal labels (rows repeat with period 2),
\* or the last row alone differs, so that two equal rows carry two labels.
TrainLabels(n) ==
    {l \in [1..n -> Labels] :
        /\ l[1] = 5
        /\ \/ \A i \in 3..n : l[i] = l[i - 2]
           \/ \A i \in 1..n : l[i] = IF i = n THEN 9 ELSE 5}

FnnInit ==
    \E n \in 1..MaxN :
      \E ly \in TrainLabels(n) :
        \E order \in SetOrders(label_set(ly)) :
          /\ x = TrainX(n)
          /\ n_hs = <<>>
          /\ use_bias = TRUE
          /\ label_y = ly
          /\ label_to_y = zip_dict(order)
          /\ y = dense_y(ly, zip_dict(order))
          /\ y_to_label = invert_dict(zip_dict(order))
          /\ n_o = Len(order)
          /\ word2vec = [t \in Tokens |-> 0]
          /\ up_wordvec \in BOOLEAN
          /\ params = init_params
          /\ gparams = None
          /\ forward_out = None
          /\ net \in InitNets(Len(order))
          /\ pc = "idle"
          /\ mt = mtIdle
          /\ trained = <<>>
          /\ trains = 0
          /\ res = NoRes

\* The other components are not running while the FNN is.
ZlIdle == [pc |-> "off", n |-> 0, minibatch |-> 0, max_epochs |-> 0, epoch |-> 0,
           wrong |-> 0, error |-> <<>>, raised |-> ""]
GdIdle == [pc |-> "off", verb2x |-> <<>>, verb2y |-> <<>>, parts |-> <<>>,
           thresholds |-> <<>>, todo |-> <<>>, train |-> <<>>, test |-> <<>>,
           validation |-> <<>>]
TlIdle == [op |-> "none"]
BtIdle == [pc |-> "off"]
DlIdle == [pc |-> "off", lower |-> FALSE, left_win |-> 0, right_win |-> 0,
           use_verb |-> FALSE, files |-> <<>>, file |-> "", nlines |-> 0,
           line |-> <<>>, verb2x |-> <<>>, verb2y |-> <<>>, error |-> ""]

(***************************************************************************)
(* FNN: the public methods called directly.                                *)
(***************************************************************************)
\* The batches passed to a directly called method: no row, or one row.
XBatches == {<<>>} \cup {<<r>> : r \in Rows}
YFor(rows) == [1..rows -> 0..(n_o - 1)]
\* The label batches passed to backprop: no label, the first label and all
\* of self.y, so that a batch may be shorter than the cached output, as long,
\* or longer.
YBatches == {PySlice(y, 0, r) : r \in {0, 1, Len(y)}}

frame_labels == <<x, label_y, y, label_to_y, y_to_label, n_o, up_wordvec, n_hs, use_bias>>
frame_train == <<pc, mt, trained, trains>>

\* forward, lines 107-118.
forward(xb) ==
    /\ pc = "idle"
    /\ forward_out' = Some(shape(LayersForward(xb)))
    /\ res' = Result("forward", "ok", LayersForward(xb))
    /\ UNCHANGED <<frame_labels, frame_train, word2vec, params, gparams, net, others>>

\* cost, lines 97-105.
cost(xb, yb) ==
    /\ pc = "idle"
    /\ forward_out' = Some(shape(LayersForward(xb)))
    /\ res' = [op |-> "cost", status |-> "ok",
               val |-> <<cross_entropy(LayersForward(xb), yb)>>,
               aux |-> true_class_probs(LayersForward(xb), yb)]
    /\ UNCHANGED <<frame_labels, frame_train, word2vec, params, gparams, net, others>>

\* predict, lines 209-221.
predict(xb) ==
    /\ pc = "idle"
    /\ forward_out' = Some(shape(LayersForward(xb)))
    /\ res' = [op |-> "predict", status |-> "ok",
               val |-> label_preds_of(LayersForward(xb)), aux |-> <<Len(xb)>>]
    /\ UNCHANGED <<frame_labels, frame_train, word2vec, params, gparams, net, others>>

\* backprop, line 127: not hasattr(self, 'forward_out') raises.
backprop_accepts == forward_out # None

\* The outcome of backprop(y): res.arg is the number of labels it was given.
BackpropResult(status, val, aux, yb) ==
    [op |-> "backprop", status |-> status, val |-> val, aux |-> aux,
     arg |-> <<Len(yb)>>]

\* Variant: self.gparams = [] (line 135) run before the test of line 127.
backprop_reject_after_reset(yb) ==
    /\ gparams' = Some(<<>>)
    /\ forward_out' = forward_out
    /\ res' = BackpropResult("error", <<"Exception">>, <<>>, yb)

\* backprop, lines 127-129: the raise; nothing has been assigned yet.
backprop_reject(yb) ==
    /\ gparams' = gparams
    /\ forward_out' = forward_out
    /\ res' = BackpropResult("error", <<"Exception">>, <<>>, yb)

\* Variant: the cached output deleted by the backprop that read it.
cache_invalidated(fo) == None

\* backprop, lines 131-141, never deletes or replaces self.forward_out: the
\* cache stays, now read by a backprop.
cache_after_backprop(fo) == Some([fo[1] EXCEPT !.used = TRUE])

\* backprop, lines 132-133: go[i][y[i]] for every row i of the cached output;
\* y[i] raises IndexError when y has fewer entries than the output has rows.
\* Entries of y past the rows are not read.
labels_cover(yb, rows) == Len(yb) >= rows

\* The IndexError of line 133: self.gparams (line 135) is not yet assigned.
backprop_index_error(yb) ==
    /\ gparams' = gparams
    /\ forward_out' = forward_out
    /\ res' = BackpropResult("error", <<"IndexError">>, <<>>, yb)

\* backprop, lines 120-141.  res.aux tells whether the output it read had
\* already been read by an earlier backprop.
backprop(yb) ==
    /\ pc = "idle"
    /\ IF ~backprop_accepts
       THEN backprop_reject(yb)
       ELSE IF ~labels_cover(yb, forward_out[1].rows)
       THEN backprop_index_error(yb)
       ELSE /\ gparams' = Some(backprop_gparams(forward_out[1].rows))
            /\ forward_out' = cache_after_backprop(forward_out)
            /\ res' = BackpropResult("ok", input_gradient(forward_out[1].rows),
                                     <<forward_out[1].used>>, yb)
    /\ UNCHANGED <<frame_labels, frame_train, word2vec, params, net, others>>

\* The network after a write: any function if a parameter or a word vector
\* changed, the same function otherwise.
NetsAfter(ps, wv) == IF ps = params /\ wv = word2vec THEN {net} ELSE Nets(n_o)

\* batch_train, lines 143-161, as a step on the FNN's fields.
do_batch_train(xb, yb, lr) ==
    LET py == LayersForward(xb)
        gs == backprop_gparams(Len(py))
        gx == input_gradient(Len(py))
        ps == update_params(params, gs, lr)
        wv == trained_wordvec(word2vec, xb, gx, lr)
    IN /\ forward_out' = cache_after_backprop(Some(shape(py)))
       /\ gparams' = Some(gs)
       /\ params' = ps
       /\ word2vec' = wv
       /\ net' \in NetsAfter(ps, wv)

batch_train(xb, yb, lr) ==
    /\ pc = "idle"
    /\ trains < MaxTrain
    /\ do_batch_train(xb, yb, lr)
    /\ trains' = trains + 1
    /\ res' = Result("batch_train", "ok", <<>>)
    /\ UNCHANGED <<frame_labels, pc, mt, trained, others>>

(***************************************************************************)
(* FNN.minibatch_train, lines 183-207, step by step.  No other method runs *)
(* while it does: the program is single-threaded.                          *)
(***************************************************************************)
\* Line 184: n_batches = int(self.y.shape[0] / minibatch).
n_batches_of(n, minibatch) == n \div minibatch

\* Lines 187-188: the bounds [lo, hi) of the slices of self.x and self.y.
x_slice(batch_i, minibatch) == <<batch_i * minibatch, (batch_i + 1) * minibatch>>
y_slice(batch_i, minibatch) == <<batch_i * minibatch, (batch_i + 1) * minibatch>>
\* Lines 194-195: the slices [lo:] of the rest.
x_rest(batch_i, minibatch) == <<(batch_i + 1) * minibatch, Len(x)>>
y_rest(batch_i, minibatch) == <<(batch_i + 1) * minibatch, Len(y)>>

\* What a slice covers: its bounds with hi clamped to the length.
covered(sl, n) == <<sl[1], Min(sl[2], n)>>

\* Line 183, for epoch in range(1, max_epochs + 1), and line 184: the next
\* epoch starts, or the loop is exhausted.
epoch_head(m) ==
    IF m.epoch + 1 <= m.max_epochs
    THEN [pc |-> "batches",
          mt |-> [m EXCEPT !.epoch = @ + 1,
                           !.n_batches = n_batches_of(Len(y), m.minibatch),
                           !.cursor = 0]]
    ELSE [pc |-> "return", mt |-> m]

\* Lines 185-197 from the position m: the next batch_train of the epoch, or
\* the end of the epoch's batches.  batch_i is unbound when the loop of line
\* 185 never ran (n_batches = 0 in the first epoch): line 194 then raises
\* UnboundLocalError.
batches_step(m, log) ==
    IF m.cursor < m.n_batches
    THEN \* lines 185-190: one iteration of for batch_i in range(0, n_batches)
         /\ LET xs == x_slice(m.cursor, m.minibatch)
                ys == y_slice(m.cursor, m.minibatch)
            IN /\ do_batch_train(PySlice(x, xs[1], xs[2]), PySlice(y, ys[1], ys[2]), m.lr)
               /\ trained' = Append(log, [x |-> covered(xs, Len(x)),
                                          y |-> covered(ys, Len(y))])
         /\ mt' = [m EXCEPT !.batch_i = m.cursor, !.cursor = @ + 1]
         /\ pc' = "batches"
         /\ res' = Result("minibatch_train", "running", <<>>)
    ELSE IF m.n_batches * m.minibatch # Len(y)
    THEN IF m.batch_i = -1
         THEN /\ pc' = "idle"
              /\ mt' = mtIdle
              /\ trained' = log
              /\ res' = Result("minibatch_train", "error",
                                <<"UnboundLocalError", "batch_i">>)
              /\ UNCHANGED <<word2vec, params, gparams, forward_out, net>>
         ELSE \* lines 192-197: train the rest
              /\ LET xs == x_rest(m.batch_i, m.minibatch)
                     ys == y_rest(m.batch_i, m.minibatch)
                 IN /\ do_batch_train(PySlice(x, xs[1], xs[2]),
                                      PySlice(y, ys[1], ys[2]), m.lr)
                    /\ trained' = Append(log, [x |-> covered(xs, Len(x)),
                                               y |-> covered(ys, Len(y))])
              /\ mt' = m
              /\ pc' = "evaluate"
              /\ res' = Result("minibatch_train", "running", <<>>)
    ELSE /\ pc' = "evaluate"
         /\ mt' = m
         /\ trained' = log
         /\ res' = Result("minibatch_train", "running", <<>>)
         /\ UNCHANGED <<word2vec, params, gparams, forward_out, net>>

\* Line 207: return epoch.  epoch is unbound when the loop never ran.
return_step(m) ==
    /\ pc' = "idle"
    /\ res' = IF m.epoch = 0
              THEN Result("minibatch_train", "error", <<"UnboundLocalError", "epoch">>)
              ELSE Result("minibatch_train", "ok", <<m.epoch>>)
    /\ mt' = mtIdle
    /\ trained' = <<>>

\* The call: binds the arguments, enters the epoch loop and runs up to the end
\* of its first batch_train (or to the return, when there is no epoch).
minibatch_train(lr, minibatch, max_epochs) ==
    /\ pc = "idle"
    /\ trains < MaxTrain
    /\ trains' = trains + 1
    /\ LET h == epoch_head([mtIdle EXCEPT !.lr = lr, !.minibatch = minibatch,
                                          !.max_epochs = max_epochs])
       IN IF h.pc = "batches"
          THEN batches_step(h.mt, <<>>)
          ELSE /\ return_step(h.mt)
               /\ UNCHANGED <<word2vec, params, gparams, forward_out, net>>
    /\ UNCHANGED <<frame_labels, others>>

\* The next batch_train of the running epoch, or the end of its batches.
mt_batches ==
    /\ pc = "batches"
    /\ batches_step(mt, trained)
    /\ UNCHANGED <<frame_labels, trains, others>>

\* Lines 198-206: predict on the whole training set, the zero-one loss, the
\* cost (a second forward pass), and the stopping test; then break, or the
\* next turn of the epoch loop.
mt_evaluate ==
    /\ pc = "evaluate"
    /\ LET py == LayersForward(x)
           label_preds == label_preds_of(py)
           error == zero_one_loss(mismatches(label_y, label_preds), Len(label_y))
           h == epoch_head([mt EXCEPT !.error = error])
       IN /\ forward_out' = Some(shape(py))
          /\ IF stop_test(error)
             THEN pc' = "return" /\ mt' = [mt EXCEPT !.error = error] /\ trained' = trained
             ELSE pc' = h.pc /\ mt' = h.mt /\ trained' = <<>>
    /\ UNCHANGED <<frame_labels, word2vec, params, gparams, net, trains, res,
                   others>>

mt_return ==
    /\ pc = "return"
    /\ return_step(mt)
    /\ UNCHANGED <<frame_labels, word2vec, params, gparams, forward_out, net,
                   trains, others>>

FnnNext ==
    \/ \E xb \in XBatches : forward(xb)
    \/ \E xb \in XBatches : \E yb \in YFor(Len(xb)) : cost(xb, yb)
    \/ \E xb \in XBatches : predict(xb)
    \/ \E yb \in YBatches : backprop(yb)
    \/ \E xb \in XBatches \ {<<>>} : \E yb \in YFor(Len(xb)) : \E lr \in Rates :
          batch_train(xb, yb, lr)
    \/ \E lr \in Rates : \E m \in 1..(Len(x) + 1) : \E e \in 0..MaxEpochs :
          minibatch_train(lr, m, e)
    \/ mt_batches
    \/ mt_evaluate
    \/ mt_return

Init == FnnInit /\ zl = ZlIdle /\ dl = DlIdle /\ gd = GdIdle /\ tl = TlIdle /\ bt = BtIdle
Next == FnnNext
Spec == Init /\ [][Next]_vars

(***************************************************************************)
(* Properties of the FNN.                                                  *)
(***************************************************************************)
Last(s) == s[Len(s)]

\* The batches of one epoch over n rows with minibatch size m: batch k covers
\* [(k-1)*m, min(k*m, n)), x and y over the same range, every row exactly once.
EpochPartition(log, n, m) ==
    /\ Len(log) = (n + m - 1) \div m
    /\ \A k \in 1..Len(log) :
          /\ log[k].x = <<(k - 1) * m, Min(k * m, n)>>
          /\ log[k].y = log[k].x
    /\ \A i \in 0..(n - 1) :
          Cardinality({k \in 1..Len(log) : log[k].x[1] <= i /\ i < log[k].x[2]}) = 1

\* The step ends the batches of an epoch: the evaluation is next, or the call
\* has ended inside the epoch by an exception.
EndsEpochBatches ==
    \/ pc # "evaluate" /\ pc' = "evaluate"
    \/ /\ pc \in {"idle", "batches"}
       /\ pc' = "idle"
       /\ res'.op = "minibatch_train"
       /\ res'.val = <<"UnboundLocalError", "batch_i">>
       /\ (pc = "idle" => trains' = trains + 1)

\* C1: for every training-set size N >= 1 and minibatch size m >= 1 (m > N
\* and m not dividing N included), when the batches of an epoch are over,
\* batch_train has been called on the contiguous slices of size m (the last
\* one possibly smaller) in ascending order, every sample exactly once, x and
\* y sliced over the same range.
C1_EpochTrainsEverySampleOnce ==
    [][EndsEpochBatches =>
          IF pc' = "evaluate"
          THEN EpochPartition(trained', Len(x), mt'.minibatch)
          ELSE \E m \in 1..(Len(x) + 1) : EpochPartition(trained', Len(x), m)]_vars

\* The step ends a minibatch_train call.
MtReturns ==
    /\ pc' = "idle"
    /\ res'.op = "minibatch_train"
    /\ \/ pc \in {"batches", "return"}
       \/ pc = "idle" /\ trains' = trains + 1

\* C2: every minibatch_train call returns the number of epochs it ran, a
\* value in 1..max_epochs: the epoch whose evaluation passed the stopping
\* test, or max_epochs.
C2_ReturnsEpochsRun ==
    [][MtReturns =>
          /\ res'.status = "ok"
          /\ pc = "return"
          /\ res'.val[1] \in 1..mt.max_epochs
          /\ (stop_test(mt.error) \/ res'.val[1] = mt.max_epochs)]_vars

\* The label normalisation is a bijection from the distinct raw labels onto
\* 0..K-1, y_to_label its inverse, and y the image of label_y.
LabelMapsOk ==
    LET K == Cardinality(Range(label_y))
    IN /\ DOMAIN label_to_y = Range(label_y)
       /\ {label_to_y[l] : l \in DOMAIN label_to_y} = 0..(K - 1)
       /\ \A l1, l2 \in DOMAIN label_to_y : label_to_y[l1] = label_to_y[l2] => l1 = l2
       /\ DOMAIN y_to_label = 0..(K - 1)
       /\ \A l \in DOMAIN label_to_y : y_to_label[label_to_y[l]] = l
       /\ n_o = K
       /\ Len(y) = Len(label_y)
       /\ \A i \in 1..Len(label_y) : y[i] = label_to_y[label_y[i]]

\* C4: in every state reachable by any sequence of forward, cost, backprop,
\* batch_train, minibatch_train and predict calls the label maps are the
\* bijection built at construction: no step changes them, and every step
\* ends in a state where they are that bijection.
C4_LabelMapsFixed ==
    [][/\ UNCHANGED <<label_y, label_to_y, y_to_label, y, n_o>>
       /\ LabelMapsOk']_vars

C4_Witness ==
    /\ res.op = "minibatch_train"
    /\ res.status = "ok"
    /\ Cardinality(Range(label_y)) = 2
    /\ label_to_y[9] = 0
    /\ params # init_params

\* C5: predict returns one value per input row, each a raw label seen at
\* construction (never a dense index, never an unseen label).
C5_PredictReturnsSeenLabels ==
    res.op = "predict" =>
        /\ Len(res.val) = res.aux[1]
        /\ \A i \in 1..Len(res.val) : res.val[i] \in Range(label_y)

C5_Witness ==
    /\ res.op = "predict"
    /\ Len(res.val) = 1
    /\ res.val[1] = 9
    /\ label_to_y[9] = 1

\* C6: cost fails with an error, instead of returning a value, whenever the
\* forward pass gives probability exactly zero to the true class of a row.
C6_CostFailsOnZeroProbability ==
    (res.op = "cost" /\ \E i \in 1..Len(res.aux) : res.aux[i] = 0) =>
        res.status = "error"

\* C7: a backprop call on an orchestrator that has run no forward pass since
\* construction fails, and leaves the parameters, the stored gradients and
\* the word-vector table as they were.
C7_BackpropBeforeForwardFails ==
    [][(forward_out = None /\ res'.op = "backprop" /\ \E yb \in YBatches : backprop(yb)) =>
          /\ res'.op = "backprop"
          /\ res'.status = "error"
          /\ UNCHANGED <<params, gparams, word2vec, forward_out>>]_vars

C7_Witness ==
    /\ res.op = "backprop"
    /\ res.status = "error"
    /\ forward_out = None
    /\ gparams = None

\* C8 as stated: backprop is accepted only on a forward output that no
\* backprop has read yet; a second backprop with no forward in between fails.
C8_BackpropConsumesForward ==
    (res.op = "backprop" /\ res.status = "ok") => res.aux = <<FALSE>>

\* C8 as amended: the forward output is never invalidated; backprop is
\* accepted exactly when some forward pass has run since construction and the
\* labels cover the rows of its output, so a second backprop with no forward
\* in between succeeds on the same output; a failed backprop leaves the
\* output and the stored gradients as they were.
C8_BackpropReusesForward ==
    [][/\ forward_out # None => forward_out' # None
       /\ res'.op = "backprop" =>
             /\ res'.status = "ok" <=>
                   (forward_out # None /\ res'.arg[1] >= forward_out[1].rows)
             /\ res'.status = "error" => UNCHANGED <<forward_out, gparams>>]_vars

C8_Witness ==
    /\ res.op = "backprop"
    /\ res.status = "ok"
    /\ res.aux = <<TRUE>>

\* The effect of one batch_train on the word-vector table: each token of the
\* batch loses lr times the number of its occurrences, if updates are enabled.
count_in(xb, t) ==
    Cardinality({ij \in (1..Len(xb)) \X (UNION {DOMAIN xb[i] : i \in 1..Len(xb)}) :
                    xb[ij[1]][ij[2]] = t})
WordvecEffect(xb, lr) ==
    \A t \in Tokens :
        word2vec'[t] = IF up_wordvec /\ count_in(xb, t) > 0
                       THEN word2vec[t] - lr * count_in(xb, t)
                       ELSE word2vec[t]
MtBatchStep == Len(trained') = Len(trained) + 1
DirectBatchTrain == res'.op = "batch_train" /\ trains' = trains + 1

\* C9: the word-vector table is written only by batch_train's update step:
\* never when embedding updates are disabled; when enabled, a batch_train
\* changes exactly the rows of the tokens of its batch, by one subtraction
\* of lr * (summed gradient) each, and no other step changes any row.
C9_WordvecWrittenOnlyByUpdate ==
    [][/\ ~up_wordvec => word2vec' = word2vec
       /\ DirectBatchTrain =>
             \E xb \in XBatches : \E lr \in Rates :
                /\ \E yb \in YFor(Len(xb)) : batch_train(xb, yb, lr)
                /\ WordvecEffect(xb, lr)
       /\ MtBatchStep =>
             WordvecEffect(PySlice(x, Last(trained').x[1], Last(trained').x[2]), mt'.lr)
       /\ (~MtBatchStep /\ ~DirectBatchTrain) => word2vec' = word2vec]_vars

C9_Witness ==
    /\ up_wordvec
    /\ pc = "evaluate"
    /\ Len(x) = 3
    /\ mt.minibatch = 3
    /\ mt.epoch = 1
    /\ word2vec = [t \in Tokens |-> IF t = 0 THEN -2 ELSE -1]

(***************************************************************************)
(* minibatch_train, lines 183-207, over a training set of any size: the    *)
(* set is given by its number of rows, and what predict returns for it by  *)
(* the number of rows it gets wrong.                                       *)
(***************************************************************************)
MaxWrong == 2      \* misclassified rows an evaluation may find
LossSizes == (1..MaxN) \cup {TolInv - 1, TolInv, TolInv + 1, 2 * TolInv}
\* The minibatch sizes: single rows, and the default of line 163.
Minibatches == {1, 5}

FnnOff ==
    /\ x = <<>> /\ label_y = <<>> /\ y = <<>>
    /\ label_to_y = <<>> /\ y_to_label = <<>> /\ n_o = 0
    /\ word2vec = [t \in Tokens |-> 0] /\ up_wordvec = FALSE
    /\ n_hs = <<>> /\ use_bias = TRUE
    /\ params = init_params /\ gparams = None /\ forward_out = None
    /\ net = <<>> /\ pc = "off" /\ mt = mtIdle /\ trained = <<>> /\ trains = 0
    /\ res = NoRes

LossInit ==
    /\ FnnOff
    /\ dl = DlIdle /\ gd = GdIdle /\ tl = TlIdle /\ bt = BtIdle
    /\ \E n \in LossSizes : \E m \in Minibatches : \E e \in 1..MaxEpochs :
          zl = [pc |-> "train", n |-> n, minibatch |-> m, max_epochs |-> e,
                epoch |-> 1, wrong |-> 0, error |-> <<>>, raised |-> ""]

\* Lines 192-194 with no full batch: the rest is due and batch_i, which the
\* loop of line 185 never bound, is read.
rest_unbound(n, minibatch) ==
    /\ n_batches_of(n, minibatch) = 0
    /\ n_batches_of(n, minibatch) * minibatch # n

\* Lines 184-199: the batches of the epoch run, predict labels the whole
\* training set, and zero_one_loss compares with label_y; or line 194 raises
\* UnboundLocalError in the first epoch and nothing is evaluated.
loss_epoch(k) ==
    /\ zl.pc = "train"
    /\ k <= zl.n
    /\ zl' = IF zl.epoch = 1 /\ rest_unbound(zl.n, zl.minibatch)
             THEN [zl EXCEPT !.pc = "raised", !.raised = "UnboundLocalError"]
             ELSE [zl EXCEPT !.pc = "test", !.wrong = k,
                             !.error = zero_one_loss(k, zl.n)]
    /\ UNCHANGED <<fnnVars, dl, gd, tl, bt>>

\* Lines 205-207: break on the stopping test, else the next epoch, else the
\* loop is exhausted; return epoch.
loss_test ==
    /\ zl.pc = "test"
    /\ zl' = IF stop_test(zl.error) \/ zl.epoch + 1 > zl.max_epochs
             THEN [zl EXCEPT !.pc = "returned"]
             ELSE [zl EXCEPT !.pc = "train", !.epoch = @ + 1]
    /\ UNCHANGED <<fnnVars, dl, gd, tl, bt>>

LossNext ==
    \/ \E k \in 0..MaxWrong : loss_epoch(k)
    \/ loss_test

SpecLoss == LossInit /\ [][LossNext]_vars

\* C3: when minibatch_train returns because the stopping test passed, predict
\* on the training input reproduces the training labels exactly: the test
\* admits no misclassified row, whatever the size of the training set.
C3_ConvergedMeansAllCorrect ==
    (zl.pc = "returned" /\ stop_test(zl.error)) => zl.wrong = 0

(***************************************************************************)
(* utils/data_loader.py, DataLoader.__init__, and the helpers of           *)
(* utils/tools.py it calls.  A line of a data file is the sequence of its  *)
(* tab characters and words; the trailing newline is already stripped.     *)
(***************************************************************************)
MaxLines == 2      \* lines read from one data file
TAB == "\t"
oov == "O_O_V"
vocab == [w \in {"a", "take", oov} |->
             CASE w = "a" -> 0 [] w = "take" -> 1 [] OTHER -> 2]
Files == {"take", "eat"}
Windows == {<<1, 1>>, <<2, 0>>, <<-1, -1>>}

\* The lines a data file may hold: empty, 1, 2, 3, 4 and 5 fields, a first
\* field that is no integer, sentences shorter and longer than the windows.
SampleLines ==
    { <<>>,
      <<"1">>,
      <<"1", TAB, "a">>,
      <<"1", TAB, "a", TAB, "take">>,
      <<"1", TAB, TAB, TAB>>,
      <<"2", TAB, "a", "z", TAB, "take", TAB, "A">>,
      <<"1", TAB, "A", TAB, "take", TAB, "z", "a", "a">>,
      <<"a", TAB, "a", TAB, "take", TAB, "z">>,
      <<TAB, "a", TAB, "take", TAB, "z">>,
      <<"1", TAB, "a", TAB, "take", TAB, "z", TAB>>,
      <<"2", TAB, TAB, TAB, TAB, "a">> }

\* str.lower on the line, line 59.
lower_word(w) == IF w = "A" THEN "a" ELSE w
lower_line(line) == [i \in 1..Len(line) |-> lower_word(line[i])]

\* str.split("\t"), line 60: one more field than there are tabs.
RECURSIVE split_tab(_)
split_tab(line) ==
    IF \A i \in 1..Len(line) : line[i] # TAB
    THEN <<line>>
    ELSE LET k == CHOOSE i \in 1..Len(line) :
                      line[i] = TAB /\ \A j \in 1..(i - 1) : line[j] # TAB
         IN  <<SubSeq(line, 1, k - 1)>> \o split_tab(SubSeq(line, k + 1, Len(line)))

\* Variant: lines of more than four fields pass.
fields_at_least(items) == Len(items) >= 4
\* The test of line 61, negated: the line has exactly 4 fields.
fields_ok(items) == Len(items) = 4

\* int(items[0]), line 64: one word that is a number.
is_int(field) == Len(field) = 1 /\ field[1] \in {"1", "2"}
int(field) == IF field[1] = "1" THEN 1 ELSE 2

\* Variant: a word out of the vocabulary gets index 0.
sent2indexs_zero(sent, vc, ov) ==
    [i \in 1..Len(sent) |-> IF sent[i] \in DOMAIN vc THEN vc[sent[i]] ELSE 0]
\* tools.sents2indexs, lines 52-69: words out of the vocabulary get the index
\* of the oov word.
sent2indexs(sent, vc, ov) ==
    [i \in 1..Len(sent) |-> IF sent[i] \in DOMAIN vc THEN vc[sent[i]] ELSE vc[ov]]
sents2indexs(sents, vc, ov) == [i \in 1..Len(sents) |-> sent2indexs(sents[i], vc, ov)]

\* tools.indexs2sents, lines 71-87; a word index missing from the dict is a
\* KeyError.
indexs2sents(sents_indexs, index2word_vocab) ==
    IF \A i \in 1..Len(sents_indexs) :
          \A k \in 1..Len(sents_indexs[i]) : sents_indexs[i][k] \in DOMAIN index2word_vocab
    THEN [i \in 1..Len(sents_indexs) |->
            [k \in 1..Len(sents_indexs[i]) |-> index2word_vocab[sents_indexs[i][k]]]]
    ELSE "KeyError"

\* tools.sent_indexs_trunc, lines 89-120.
pads(n, padding_index) == [i \in 1..n |-> padding_index]
\* Variant: the padding appended whatever the direction.
sent_indexs_trunc_pad_right(sent, window, direction, padding_index, use_padding) ==
    IF window = -1 THEN sent
    ELSE IF window > Len(sent)
    THEN IF ~use_padding THEN sent ELSE sent \o pads(window - Len(sent), padding_index)
    ELSE IF direction = "left"
         THEN SubSeq(sent, Len(sent) - window + 1, Len(sent))
         ELSE SubSeq(sent, 1, window)
sent_indexs_trunc(sent, window, direction, padding_index, use_padding) ==
    IF window = -1 THEN sent
    ELSE IF window > Len(sent)
    THEN IF ~use_padding THEN sent
         ELSE IF direction = "left"
         THEN pads(window - Len(sent), padding_index) \o sent
         ELSE sent \o pads(window - Len(sent), padding_index)
    ELSE IF direction = "left"
         THEN SubSeq(sent, Len(sent) - window + 1, Len(sent))
         ELSE SubSeq(sent, 1, window)

\* Lines 66-74: the sample of an accepted line.
input_sent(items, left_win, right_win, use_verb) ==
    LET sents == sents2indexs(SubSeq(items, 2, Len(items)), vocab, oov)
        left  == sent_indexs_trunc(sents[1], left_win, "left", vocab[oov], TRUE)
        right == sent_indexs_trunc(sents[3], right_win, "right", vocab[oov], TRUE)
    IN  IF use_verb THEN left \o sents[2] \o right ELSE left \o right

\* dict[key].append(v) after the "not in" test of lines 75-79.
dict_append(d, key, v) ==
    IF key \in DOMAIN d
    THEN [d EXCEPT ![key] = Append(@, v)]
    ELSE d @@ (key :> <<v>>)

\* A permutation of the file names: os.listdir gives them in any order.
FileOrders == {o \in [1..Cardinality(Files) -> Files] : Range(o) = Files}

LoaderInit ==
    /\ FnnOff
    /\ zl = ZlIdle /\ gd = GdIdle /\ tl = TlIdle /\ bt = BtIdle
    /\ \E o \in FileOrders : \E w \in Windows : \E uv \in BOOLEAN : \E lo \in BOOLEAN :
          dl = [pc |-> "reading", lower |-> lo, left_win |-> w[1], right_win |-> w[2],
                use_verb |-> uv, files |-> Tail(o), file |-> Head(o), nlines |-> 0,
                line |-> <<>>, verb2x |-> <<>>, verb2y |-> <<>>, error |-> ""]

\* One pass of the loop over the lines of the open file, lines 53-79.
read_line(raw) ==
    /\ dl.pc = "reading"
    /\ dl.nlines < MaxLines
    /\ LET line  == IF raw # <<>> /\ dl.lower THEN lower_line(raw) ELSE raw
           items == split_tab(line)
           d     == [dl EXCEPT !.nlines = @ + 1, !.line = raw]
       IN  dl' = IF raw = <<>> THEN d
                 ELSE IF ~fields_ok(items)
                 THEN [d EXCEPT !.pc = "failed", !.error = "Exception"]
                 ELSE IF ~is_int(items[1])
                 THEN [d EXCEPT !.pc = "failed", !.error = "ValueError"]
                 ELSE [d EXCEPT
                         !.verb2x = dict_append(@, dl.file,
                                      input_sent(items, dl.left_win, dl.right_win,
                                                 dl.use_verb)),
                         !.verb2y = dict_append(@, dl.file, int(items[1]))]
    /\ UNCHANGED <<fnnVars, zl, gd, tl, bt>>

\* The file is exhausted: the next file of line 50, or the constructor returns.
end_of_file ==
    /\ dl.pc = "reading"
    /\ dl' = IF dl.files = <<>>
             THEN [dl EXCEPT !.pc = "done", !.file = ""]
             ELSE [dl EXCEPT !.file = Head(dl.files), !.files = Tail(dl.files),
                             !.nlines = 0]
    /\ UNCHANGED <<fnnVars, zl, gd, tl, bt>>

LoaderNext ==
    \/ \E raw \in SampleLines : read_line(raw)
    \/ end_of_file

SpecLoader == LoaderInit /\ [][LoaderNext]_vars

samples_of(d, key) == IF key \in DOMAIN d THEN Len(d[key]) ELSE 0

\* C10: the constructor fails on the first non-empty line that does not split
\* into exactly 4 tab-separated fields, adding nothing for that line; every
\* line it accepts adds exactly one sample and one frame id to the verb of the
\* file; so each verb always has as many samples as frame ids.
C10_LoaderRejectsMalformedLines ==
    [][\A raw \in SampleLines : read_line(raw) =>
          /\ (raw # <<>> /\ Len(split_tab(raw)) # 4) =>
                /\ dl'.pc = "failed"
                /\ dl'.verb2x = dl.verb2x /\ dl'.verb2y = dl.verb2y
          /\ (raw # <<>> /\ dl'.pc = "reading") =>
                /\ samples_of(dl'.verb2x, dl.file) = samples_of(dl.verb2x, dl.file) + 1
                /\ samples_of(dl'.verb2y, dl.file) = samples_of(dl.verb2y, dl.file) + 1
          /\ DOMAIN dl'.verb2x = DOMAIN dl'.verb2y
          /\ \A v \in DOMAIN dl'.verb2x : Len(dl'.verb2x[v]) = Len(dl'.verb2y[v])]_vars

\* A file with an accepted line has been read and a later line of a wrong
\* field count has stopped the constructor.
C10_Witness ==
    /\ dl.pc = "failed" /\ dl.error = "Exception"
    /\ dl.line # <<>> /\ Len(split_tab(dl.line)) # 4
    /\ \E v \in DOMAIN dl.verb2x : Len(dl.verb2x[v]) >= 1

(***************************************************************************)
(* utils/data_loader.py, DataLoader.get_data, lines 83-148, and            *)
(* tools.shuffle_two_lists.  The three parts are floats; the model takes   *)
(* them in tenths and computes what IEEE-754 double arithmetic gives.  A   *)
(* loaded sample is kept as its position in its verb's list, so that two   *)
(* equal samples stay two occurrences.                                     *)
(***************************************************************************)
MaxSamples == 3    \* samples loaded for one verb
Frames == {1, 2}
\* <<train_part, test_part, validation_part>> in tenths.
PartChoices ==
    { <<7, 2, 1>>, <<5, 2, 1>>, <<10, 0, 0>>, <<0, 0, 0>>, <<3, 3, 3>>, <<4, 4, 0>>,
      <<-1, 5, 5>>, <<6, 5, 0>> }
\* <<sent_num_threshold, frame_threshold>>.
Thresholds == {<<0, 0>>, <<2, 0>>, <<0, 2>>}

\* The triples a, b, c of tenths with a + b + c <= 10 whose double sum
\* (a/10 + b/10) + c/10 is rounded below the double nearest to (a+b+c)/10.
LowSums ==
    {
      <<0, 1, 7>>, <<0, 2, 7>>, <<0, 3, 6>>, <<0, 6, 3>>, <<0, 7, 1>>, <<0, 7, 2>>, <<1, 0, 7>>, <<1, 1, 7>>,
      <<1, 5, 3>>, <<1, 6, 1>>, <<1, 6, 2>>, <<1, 7, 0>>, <<1, 7, 1>>, <<2, 0, 7>>, <<2, 5, 1>>, <<2, 5, 2>>,
      <<2, 7, 0>>, <<2, 7, 1>>, <<3, 0, 6>>, <<3, 3, 3>>, <<3, 4, 1>>, <<3, 4, 2>>, <<3, 6, 0>>, <<3, 6, 1>>,
      <<4, 3, 1>>, <<4, 3, 2>>, <<5, 1, 3>>, <<5, 2, 1>>, <<5, 2, 2>>, <<6, 0, 3>>, <<6, 1, 1>>, <<6, 1, 2>>,
      <<6, 3, 0>>, <<6, 3, 1>>, <<7, 0, 1>>, <<7, 0, 2>>, <<7, 1, 0>>, <<7, 1, 1>>, <<7, 2, 0>>, <<7, 2, 1>> }

\* Lines 100-101: the test on the parameters.  On tenths the double sum
\* exceeds 1.0 exactly when the exact sum does.
parts_invalid(tp, te, vp) == tp < 0 \/ te < 0 \/ vp < 0 \/ tp + te + vp > 10

\* int(part * len(frame_x)), lines 123-129: for one part in tenths the double
\* product truncates to the exact floor.
int_of_part(part, n) == (part * n) \div 10

\* int((train_part + test_part + validation_part) * len(frame_x)), line 134,
\* for n < 10: a sum rounded below loses one when the exact product is a
\* whole number.
int_of_sum(tp, te, vp, n) ==
    LET exact == ((tp + te + vp) * n) \div 10
    IN  IF <<tp, te, vp>> \in LowSums /\ n > 0 /\ ((tp + te + vp) * n) % 10 = 0
        THEN exact - 1
        ELSE exact

\* [x[i] for i in range(0, len(y)) if y[i] == frame], line 122.
RECURSIVE frame_x_of(_, _, _)
frame_x_of(sx, sy, frame) ==
    IF sy = <<>> THEN <<>>
    ELSE (IF Head(sy) = frame THEN <<Head(sx)>> ELSE <<>>)
            \o frame_x_of(Tail(sx), Tail(sy), frame)

\* [frame for k in range(0, num)].
repeat(frame, num) == [k \in 1..num |-> frame]

NoSplit == [train_x |-> <<>>, train_y |-> <<>>, test_x |-> <<>>, test_y |-> <<>>,
            validation_x |-> <<>>, validation_y |-> <<>>]

\* Lines 121-134: one pass of the loop over the frames of a verb.
split_frame(acc, sx, sy, frame, parts) ==
    LET frame_x        == frame_x_of(sx, sy, frame)
        train_num      == int_of_part(parts[1], Len(frame_x))
        test_num       == int_of_part(parts[2], Len(frame_x))
        validation_num == int_of_part(parts[3], Len(frame_x))
        real_sum       == train_num + test_num + validation_num
        loss_num       == int_of_sum(parts[1], parts[2], parts[3], Len(frame_x)) - real_sum
    IN  [train_x |-> acc.train_x \o PySlice(frame_x, 0, train_num)
                        \o PySlice(frame_x, real_sum, real_sum + loss_num),
         train_y |-> acc.train_y \o repeat(frame, train_num) \o repeat(frame, loss_num),
         test_x |-> acc.test_x \o PySlice(frame_x, train_num, train_num + test_num),
         test_y |-> acc.test_y \o repeat(frame, test_num),
         validation_x |-> acc.validation_x \o PySlice(frame_x, train_num + test_num, real_sum),
         validation_y |-> acc.validation_y \o repeat(frame, validation_num)]

\* Line 120: for frame in frames, the set iterated in the order `order`.
RECURSIVE split_frames(_, _, _, _, _)
split_frames(order, acc, sx, sy, parts) ==
    IF order = <<>> THEN acc
    ELSE split_frames(Tail(order), split_frame(acc, sx, sy, Head(order), parts),
                      sx, sy, parts)

\* tools.shuffle_two_lists, lines 122-141, for two lists of one length, with
\* the permutation random.shuffle produced.
Perms(n) == {q \in [1..n -> 1..n] : \A i, j \in 1..n : i # j => q[i] # q[j]}
shuffle_two_lists(lista, listb, q) ==
    [x |-> [i \in 1..Len(lista) |-> lista[q[i]]],
     y |-> [i \in 1..Len(listb) |-> listb[q[i]]]]

\* The sample lists of a loaded verb: sample i is the i-th accepted line.
LoadedX(n) == [i \in 1..n |-> i]
LoadedY == UNION {[1..n -> Frames] : n \in 1..MaxSamples}

SplitInit ==
    /\ FnnOff
    /\ zl = ZlIdle /\ dl = DlIdle /\ tl = TlIdle /\ bt = BtIdle
    /\ \E ty \in LoadedY : \E ey \in {<<>>, <<1>>, <<2, 1>>} :
          LET vy == IF ey = <<>> THEN ("take" :> ty) ELSE ("take" :> ty) @@ ("eat" :> ey)
          IN  gd = [pc |-> "loaded",
                    verb2x |-> [v \in DOMAIN vy |-> LoadedX(Len(vy[v]))],
                    verb2y |-> vy,
                    parts |-> <<>>, thresholds |-> <<>>, todo |-> <<>>,
                    train |-> <<>>, test |-> <<>>, validation |-> <<>>]

\* Lines 83-105: the call, its parameter test and the three empty dicts.
get_data(parts, thresholds) ==
    /\ gd.pc = "loaded"
    /\ IF parts_invalid(parts[1], parts[2], parts[3])
       THEN gd' = [gd EXCEPT !.pc = "failed", !.parts = parts, !.thresholds = thresholds]
       ELSE \E order \in SetOrders(DOMAIN gd.verb2x) :
               gd' = [gd EXCEPT !.pc = "verbs", !.parts = parts,
                                !.thresholds = thresholds, !.todo = order]
    /\ UNCHANGED <<fnnVars, zl, dl, tl, bt>>

\* Lines 106-146: one pass of the loop over the verbs.
get_data_verb ==
    /\ gd.pc = "verbs"
    /\ gd.todo # <<>>
    /\ LET verb   == Head(gd.todo)
           sx     == gd.verb2x[verb]
           sy     == gd.verb2y[verb]
           frames == Range(sy)
       IN  IF Len(sx) < gd.thresholds[1] \/ Cardinality(frames) < gd.thresholds[2]
           THEN gd' = [gd EXCEPT !.todo = Tail(@)]
           ELSE \E order \in SetOrders(frames) :
                  LET sp == split_frames(order, NoSplit, sx, sy, gd.parts)
                  IN  \E q1 \in Perms(Len(sp.train_x)) :
                      \E q2 \in Perms(Len(sp.test_x)) :
                      \E q3 \in Perms(Len(sp.validation_x)) :
                         gd' = [gd EXCEPT
                                  !.todo = Tail(@),
                                  !.train = @ @@ (verb :>
                                     shuffle_two_lists(sp.train_x, sp.train_y, q1)),
                                  !.test = @ @@ (verb :>
                                     shuffle_two_lists(sp.test_x, sp.test_y, q2)),
                                  !.validation = @ @@ (verb :>
                                     shuffle_two_lists(sp.validation_x,
                                                       sp.validation_y, q3))]
    /\ UNCHANGED <<fnnVars, zl, dl, tl, bt>>

\* Line 147: return [train, test, validation].
get_data_return ==
    /\ gd.pc = "verbs"
    /\ gd.todo = <<>>
    /\ gd' = [gd EXCEPT !.pc = "done"]
    /\ UNCHANGED <<fnnVars, zl, dl, tl, bt>>

SplitNext ==
    \/ \E parts \in PartChoices : \E thresholds \in Thresholds : get_data(parts, thresholds)
    \/ get_data_verb
    \/ get_data_return

SpecSplit == SplitInit /\ [][SplitNext]_vars

count_of(sy, frame) == Cardinality({i \in 1..Len(sy) : sy[i] = frame})

\* A split pairs every sample with its own frame label.
PairedWithOwnLabel(split, sy) ==
    /\ Len(split.x) = Len(split.y)
    /\ \A i \in 1..Len(split.x) : split.y[i] = sy[split.x[i]]

\* C11: for valid parts, no loaded sample occurrence is in more than one of
\* train, test and validation, every placed sample carries its own frame
\* label, and per frame of n samples the splits hold floor(test_part * n)
\* test samples, floor(validation_part * n) validation samples and
\* floor((train_part + test_part + validation_part) * n) samples in all, the
\* rest of them in train; for invalid parts get_data raises with no split made.
C11_SplitsPartitionSamples ==
    /\ gd.pc = "failed" =>
          /\ parts_invalid(gd.parts[1], gd.parts[2], gd.parts[3])
          /\ gd.train = <<>> /\ gd.test = <<>> /\ gd.validation = <<>>
    /\ gd.pc \in {"verbs", "done"} =>
          /\ ~parts_invalid(gd.parts[1], gd.parts[2], gd.parts[3])
          /\ \A v \in DOMAIN gd.train :
                LET sy  == gd.verb2y[v]
                    all == gd.train[v].x \o gd.test[v].x \o gd.validation[v].x
                IN  /\ Cardinality(Range(all)) = Len(all)
                    /\ PairedWithOwnLabel(gd.train[v], sy)
                    /\ PairedWithOwnLabel(gd.test[v], sy)
                    /\ PairedWithOwnLabel(gd.validation[v], sy)
                    /\ \A f \in Range(sy) :
                          LET n == count_of(sy, f)
                          IN  /\ count_of(gd.test[v].y, f) = (gd.parts[2] * n) \div 10
                              /\ count_of(gd.validation[v].y, f) = (gd.parts[3] * n) \div 10
                              /\ count_of(gd.train[v].y, f) + count_of(gd.test[v].y, f)
                                    + count_of(gd.validation[v].y, f)
                                 = ((gd.parts[1] + gd.parts[2] + gd.parts[3]) * n) \div 10

(***************************************************************************)
(* The helpers of utils/tools.py called on their own, and the sample of    *)
(* one accepted line (data_loader.py, lines 66-74).                        *)
(***************************************************************************)
MaxSentLen == 2    \* words in a sentence
MaxWindow == 3     \* length of a truncation window
ToolWords == {"a", "z", "take", "take "}
Indexs == {0, 1, 2}
Paddings == {2, -1}
\* The vocabularies, each with oov: oov alone, injective ones with one and
\* with two words, one where two words share an index and one where a word
\* shares the index of oov.
Vocabs ==
    { [w \in {oov} |-> 0],
      [w \in {"a", oov} |-> IF w = "a" THEN 2 ELSE 1],
      vocab,
      [w \in {"a", "take", oov} |-> IF w = oov THEN 0 ELSE 1],
      [w \in {"a", "take", oov} |-> IF w = "a" THEN 0 ELSE 1] }
WordSents == UNION {[1..n -> ToolWords] : n \in 0..MaxSentLen}
\* No sentence, one sentence, and a sentence before the empty one or "take".
SentLists == {<<>>} \cup {<<st>> : st \in WordSents}
                    \cup {<<st, <<>>>> : st \in WordSents}
                    \cup {<<st, <<"take">>>> : st \in WordSents}
IndexSents == UNION {[1..n -> Indexs] : n \in 0..MaxSentLen}
injective(vc) == \A w1, w2 \in DOMAIN vc : vc[w1] = vc[w2] => w1 = w2

\* word.strip(), line 50: "take " is the word with whitespace around it.
strip(word) == IF word = "take " THEN "take" ELSE word
\* tools.sents_trimming, lines 43-50: every word of every sentence is replaced
\* in place by its stripped form; the value is the caller's list afterwards.
sents_trimming(sents) ==
    [i \in 1..Len(sents) |-> [k \in 1..Len(sents[i]) |-> strip(sents[i][k])]]

ToolsInit ==
    /\ FnnOff
    /\ zl = ZlIdle /\ dl = DlIdle /\ gd = GdIdle /\ bt = BtIdle
    /\ tl = TlIdle

\* sent_indexs_trunc(sent, window, direction, padding_index, use_padding);
\* sent_after is the caller's list after the call: no statement of the
\* function assigns into it.
call_sent_indexs_trunc(sent, window, direction, padding_index, use_padding) ==
    /\ tl.op = "none"
    /\ tl' = [op |-> "sent_indexs_trunc", sent |-> sent, window |-> window,
              direction |-> direction, padding_index |-> padding_index,
              use_padding |-> use_padding, sent_after |-> sent,
              out |-> sent_indexs_trunc(sent, window, direction, padding_index,
                                        use_padding)]
    /\ UNCHANGED <<fnnVars, zl, dl, gd, bt>>

\* sents2indexs(sents, vocab, oov).
call_sents2indexs(sents, vc) ==
    /\ tl.op = "none"
    /\ tl' = [op |-> "sents2indexs", sents |-> sents, vocab |-> vc,
              out |-> sents2indexs(sents, vc, oov)]
    /\ UNCHANGED <<fnnVars, zl, dl, gd, bt>>

\* sents_trimming(sents) on its own: sents_after is the caller's list.
call_sents_trimming(sents) ==
    /\ tl.op = "none"
    /\ tl' = [op |-> "sents_trimming", given |-> sents,
              sents_after |-> sents_trimming(sents)]
    /\ UNCHANGED <<fnnVars, zl, dl, gd, bt>>

\* basic_test, lines 313-320: the sentences are trimmed in place, then
\* indexs2sents is applied to the output of sents2indexs, with the inverted
\* vocabulary.  sents is the list sents2indexs receives.
call_indexs2sents(given, vc) ==
    /\ tl.op = "none"
    /\ injective(vc)
    /\ LET sents == sents_trimming(given)
       IN tl' = [op |-> "indexs2sents", given |-> given, sents |-> sents, vocab |-> vc,
                 sents_indexs |-> sents2indexs(sents, vc, oov),
                 out |-> indexs2sents(sents2indexs(sents, vc, oov), invert_dict(vc))]
    /\ UNCHANGED <<fnnVars, zl, dl, gd, bt>>

\* data_loader.py, lines 66-74, on the fields of one accepted line: four
\* fields (line 61), the first an integer (line 64).
call_input_sent(line, w, use_verb) ==
    /\ tl.op = "none"
    /\ fields_ok(split_tab(line))
    /\ is_int(split_tab(line)[1])
    /\ tl' = [op |-> "input_sent", line |-> line, left_win |-> w[1], right_win |-> w[2],
              use_verb |-> use_verb,
              out |-> input_sent(split_tab(line), w[1], w[2], use_verb)]
    /\ UNCHANGED <<fnnVars, zl, dl, gd, bt>>

ToolsNext ==
    \/ \E sent \in IndexSents : \E window \in (-1)..MaxWindow :
       \E direction \in {"left", "right"} : \E padding_index \in Paddings :
       \E use_padding \in BOOLEAN :
          call_sent_indexs_trunc(sent, window, direction, padding_index, use_padding)
    \/ \E sents \in SentLists : \E vc \in Vocabs : call_sents2indexs(sents, vc)
    \/ \E sents \in SentLists : call_sents_trimming(sents)
    \/ \E sents \in SentLists : \E vc \in Vocabs : call_indexs2sents(sents, vc)
    \/ \E line \in SampleLines : \E w \in Windows : \E use_verb \in BOOLEAN :
          call_input_sent(line, w, use_verb)

SpecTools == ToolsInit /\ [][ToolsNext]_vars

\* C14: with use_padding and a window >= 0, sent_indexs_trunc returns exactly
\* `window` entries and leaves its input as it was: for "left" the last
\* `window` indices of the sentence, preceded by padding when the sentence is
\* shorter; otherwise the first `window` indices, followed by padding; for
\* window -1 the whole sentence.  So a DataLoader sample built with
\* left_win, right_win >= 0 and without the verb has left_win + right_win
\* entries.
C14_TruncGivesWindowEntries ==
    /\ (tl.op = "sent_indexs_trunc" /\ tl.window = -1) =>
          tl.out = tl.sent /\ tl.sent_after = tl.sent
    /\ (tl.op = "sent_indexs_trunc" /\ tl.window >= 0 /\ tl.use_padding) =>
          LET n == Len(tl.sent)
              w == tl.window
          IN  /\ Len(tl.out) = w
              /\ tl.sent_after = tl.sent
              /\ \A j \in 1..w :
                    tl.out[j] = IF tl.direction = "left"
                                THEN IF j <= w - n THEN tl.padding_index
                                     ELSE tl.sent[n - w + j]
                                ELSE IF j <= n THEN tl.sent[j]
                                     ELSE tl.padding_index
    /\ (tl.op = "input_sent" /\ tl.left_win >= 0 /\ tl.right_win >= 0 /\ ~tl.use_verb) =>
          Len(tl.out) = tl.left_win + tl.right_win

\* A sentence of two indices padded on the left to a window of three.
C14_Witness ==
    /\ tl.op = "sent_indexs_trunc"
    /\ tl.direction = "left"
    /\ tl.use_padding
    /\ tl.sent = <<0, 1>>
    /\ tl.window = Len(tl.sent) + 1
    /\ tl.out = <<tl.padding_index, 0, 1>>

\* The sentences with every word out of the vocabulary replaced by oov.
with_oov(sents, vc) ==
    [i \in 1..Len(sents) |->
        [k \in 1..Len(sents[i]) |->
            IF sents[i][k] \in DOMAIN vc THEN sents[i][k] ELSE oov]]

\* C15: sents2indexs returns as many sentences, each with as many entries,
\* and every entry is the vocabulary's index of the word, or the index of
\* oov for a word out of the vocabulary; every index of a DataLoader sample,
\* padding included, is an index of the vocabulary; for an injective
\* vocabulary indexs2sents gives the sentences back with oov for every word
\* out of the vocabulary.
C15_IndexsAreVocabIndexs ==
    /\ tl.op = "sents2indexs" =>
          /\ Len(tl.out) = Len(tl.sents)
          /\ \A i \in 1..Len(tl.sents) :
                /\ Len(tl.out[i]) = Len(tl.sents[i])
                /\ \A k \in 1..Len(tl.sents[i]) :
                      /\ tl.out[i][k] \in {tl.vocab[w] : w \in DOMAIN tl.vocab}
                      /\ tl.sents[i][k] \in DOMAIN tl.vocab =>
                            tl.out[i][k] = tl.vocab[tl.sents[i][k]]
                      /\ tl.sents[i][k] \notin DOMAIN tl.vocab =>
                            tl.out[i][k] = tl.vocab[oov]
    /\ tl.op = "indexs2sents" => tl.out = with_oov(tl.sents, tl.vocab)
    /\ tl.op = "input_sent" =>
          \A k \in 1..Len(tl.out) : tl.out[k] \in {vocab[w] : w \in DOMAIN vocab}

\* Two sentences, one with a word out of a vocabulary whose oov index is 1.
C15_Witness ==
    /\ tl.op = "sents2indexs"
    /\ tl.vocab = [w \in {"a", oov} |-> IF w = "a" THEN 2 ELSE 1]
    /\ tl.sents = <<<<"a", "z">>, <<"take">>>>
    /\ tl.out = <<<<2, 1>>, <<1>>>>

(***************************************************************************)
(* FNN.minibatch_train with batch_train and backprop run statement by      *)
(* statement, for networks with hidden layers.  bt is the frame of the     *)
(* running batch_train together with the history of the run: the           *)
(* statements executed, the layers visited by the backward pass, the       *)
(* number of parameter updates made and the number a forward pass saw.     *)
(***************************************************************************)
\* feedforward_nn_test, line 227, and its prefixes.
HiddenChoices == {<<>>, <<30>>, <<30, 20>>, <<30, 20, 10>>}

\* Variant: the parameters are updated before the passes.
batch_train_body_update_first == <<"update", "forward", "backprop", "wordvec">>
\* batch_train, lines 153-161: its statements in program order.
batch_train_body == <<"forward", "backprop", "update", "wordvec">>

BtReady == [pc |-> "idle", i |-> 0, xb |-> <<>>, yb |-> <<>>, lr |-> 0, k |-> 0,
            visits |-> <<>>, trace |-> <<>>, pairs |-> <<>>, version |-> 0,
            read |-> 0, done |-> 0]

StepsInit ==
    /\ \E n \in 1..MaxN :
       \E hs \in HiddenChoices :
       \E order \in SetOrders(label_set([i \in 1..n |-> IF i = n THEN 9 ELSE 5])) :
          /\ x = TrainX(n)
          /\ n_hs = hs
          /\ use_bias \in BOOLEAN
          /\ label_y = [i \in 1..n |-> IF i = n THEN 9 ELSE 5]
          /\ label_to_y = zip_dict(order)
          /\ y = dense_y(label_y, label_to_y)
          /\ y_to_label = invert_dict(label_to_y)
          /\ n_o = Cardinality(label_set(label_y))
          /\ word2vec = [t \in Tokens |-> 0]
          /\ up_wordvec \in BOOLEAN
          /\ params = init_params
          /\ gparams = None
          /\ forward_out = None
          /\ net \in InitNets(n_o)
          /\ pc = "idle"
          /\ mt = mtIdle
          /\ trained = <<>>
          /\ trains = 0
          /\ res = NoRes
    /\ zl = ZlIdle /\ dl = DlIdle /\ gd = GdIdle /\ tl = TlIdle
    /\ bt = BtReady

\* The statement of batch_train at position i, "idle" past the last one.
statement_at(i) == IF i <= Len(batch_train_body) THEN batch_train_body[i] ELSE "idle"

\* The call batch_train(xb, yb, lr): a new frame at the first statement.
enter_batch_train(b, xb, yb, lr) ==
    [b EXCEPT !.pc = statement_at(1), !.i = 1, !.xb = xb, !.yb = yb, !.lr = lr,
              !.k = 0, !.visits = <<>>, !.trace = <<>>, !.pairs = <<>>]

\* The frame after the statement `name`: at the next statement, or returned.
after_statement(b, name) ==
    [b EXCEPT !.pc = statement_at(b.i + 1), !.i = @ + 1, !.trace = Append(@, name),
              !.done = IF b.i + 1 > Len(batch_train_body) THEN @ + 1 ELSE @]

\* An exception leaves batch_train and minibatch_train.
steps_raise(name, what) ==
    /\ bt' = [bt EXCEPT !.pc = "idle"]
    /\ pc' = "idle"
    /\ mt' = mtIdle
    /\ trained' = <<>>
    /\ res' = Result("minibatch_train", "error", <<name, what>>)

\* The call of minibatch_train, lines 163-184: one call per behaviour.
steps_minibatch_train(lr, minibatch, max_epochs) ==
    /\ pc = "idle" /\ bt.pc = "idle"
    /\ trains = 0
    /\ trains' = trains + 1
    /\ LET h == epoch_head([mtIdle EXCEPT !.lr = lr, !.minibatch = minibatch,
                                          !.max_epochs = max_epochs])
       IN pc' = h.pc /\ mt' = h.mt
    /\ trained' = <<>>
    /\ res' = Result("minibatch_train", "running", <<>>)
    /\ UNCHANGED <<frame_labels, word2vec, params, gparams, forward_out, net, others>>

\* Lines 185-197: the call of the next batch_train of the epoch, or the end of
\* the epoch's batches.
steps_batches ==
    /\ pc = "batches" /\ bt.pc = "idle"
    /\ IF mt.cursor < mt.n_batches
       THEN LET xs == x_slice(mt.cursor, mt.minibatch)
                ys == y_slice(mt.cursor, mt.minibatch)
            IN /\ bt' = enter_batch_train(bt, PySlice(x, xs[1], xs[2]),
                                          PySlice(y, ys[1], ys[2]), mt.lr)
               /\ trained' = Append(trained, [x |-> covered(xs, Len(x)),
                                              y |-> covered(ys, Len(y))])
               /\ mt' = [mt EXCEPT !.batch_i = mt.cursor, !.cursor = @ + 1]
               /\ pc' = "batches"
               /\ res' = res
       ELSE IF mt.n_batches * mt.minibatch # Len(y)
       THEN IF mt.batch_i = -1
            THEN steps_raise("UnboundLocalError", "batch_i")
            ELSE LET xs == x_rest(mt.batch_i, mt.minibatch)
                     ys == y_rest(mt.batch_i, mt.minibatch)
                 IN /\ bt' = enter_batch_train(bt, PySlice(x, xs[1], xs[2]),
                                               PySlice(y, ys[1], ys[2]), mt.lr)
                    /\ trained' = Append(trained, [x |-> covered(xs, Len(x)),
                                                   y |-> covered(ys, Len(y))])
                    /\ mt' = mt
                    /\ pc' = "evaluate"
                    /\ res' = res
       ELSE /\ pc' = "evaluate"
            /\ UNCHANGED <<mt, trained, res, bt>>
    /\ UNCHANGED <<frame_labels, word2vec, params, gparams, forward_out, net, trains,
                   zl, dl, gd, tl>>

\* Line 153: self.forward(x), which reads the parameters as they are.
st_forward ==
    /\ bt.pc = "forward"
    /\ forward_out' = Some(shape(LayersForward(bt.xb)))
    /\ bt' = [after_statement(bt, "forward") EXCEPT !.read = bt.version]
    /\ UNCHANGED <<frame_labels, frame_train, word2vec, params, gparams, net, res,
                   zl, dl, gd, tl>>

\* Line 154 into backprop, lines 127-135: the test of forward_out, the seed of
\* the output gradient and the empty gradient list.
st_backprop ==
    /\ bt.pc = "backprop"
    /\ IF backprop_accepts
       THEN /\ gparams' = Some(<<>>)
            /\ bt' = [bt EXCEPT !.pc = "layer", !.k = Len(layers), !.visits = <<>>]
            /\ UNCHANGED <<pc, mt, trained, res>>
       ELSE /\ steps_raise("Exception", "forward_out")
            /\ UNCHANGED gparams
    /\ UNCHANGED <<frame_labels, trains, word2vec, params, forward_out, net,
                   zl, dl, gd, tl>>

\* Lines 136-138: one turn of for layer in reversed(self.layers).
st_layer ==
    /\ bt.pc = "layer"
    /\ bt.k >= 1
    /\ gparams' = Some(prepend_gparams(layer_gparams(layers[bt.k], forward_out[1].rows),
                                       gparams[1]))
    /\ bt' = [bt EXCEPT !.k = @ - 1, !.visits = Append(@, bt.k)]
    /\ UNCHANGED <<frame_labels, frame_train, word2vec, params, forward_out, net, res,
                   zl, dl, gd, tl>>

\* Lines 139-141: the loop is exhausted and backprop returns gx.
st_backprop_return ==
    /\ bt.pc = "layer"
    /\ bt.k = 0
    /\ forward_out' = cache_after_backprop(forward_out)
    /\ bt' = after_statement(bt, "backprop")
    /\ UNCHANGED <<frame_labels, frame_train, word2vec, params, gparams, net, res,
                   zl, dl, gd, tl>>

\* The names zip(self.gparams, self.params) pairs, line 156.
zip_names(gs, ps) ==
    [i \in 1..Min(Len(gs), Len(ps)) |-> [gparam |-> gs[i].name, param |-> ps[i].name]]

\* Lines 156-157: the update of every parameter.  self.gparams is missing
\* before the first backprop.
st_update ==
    /\ bt.pc = "update"
    /\ IF gparams = None
       THEN /\ steps_raise("AttributeError", "gparams")
            /\ UNCHANGED <<params, net>>
       ELSE /\ params' = update_params(params, gparams[1], bt.lr)
            /\ net' \in NetsAfter(update_params(params, gparams[1], bt.lr), word2vec)
            /\ bt' = [after_statement(bt, "update") EXCEPT
                         !.version = @ + 1,
                         !.pairs = zip_names(gparams[1], params)]
            /\ UNCHANGED <<pc, mt, trained, res>>
    /\ UNCHANGED <<frame_labels, trains, word2vec, gparams, forward_out,
                   zl, dl, gd, tl>>

\* Lines 158-161: the update of the word vectors, and the return.
st_wordvec ==
    /\ bt.pc = "wordvec"
    /\ LET wv == trained_wordvec(word2vec, bt.xb, input_gradient(Len(bt.xb)), bt.lr)
       IN /\ word2vec' = wv
          /\ net' \in NetsAfter(params, wv)
    /\ bt' = after_statement(bt, "wordvec")
    /\ UNCHANGED <<frame_labels, frame_train, params, gparams, forward_out, res,
                   zl, dl, gd, tl>>

\* Lines 198-206 and 207, between two batch_train calls.
steps_evaluate == bt.pc = "idle" /\ mt_evaluate
steps_return == bt.pc = "idle" /\ mt_return

StepsNext ==
    \/ \E lr \in Rates : \E minibatch \in 1..(MaxN + 1) : \E max_epochs \in 0..MaxEpochs :
          steps_minibatch_train(lr, minibatch, max_epochs)
    \/ steps_batches
    \/ st_forward
    \/ st_backprop
    \/ st_layer
    \/ st_backprop_return
    \/ st_update
    \/ st_wordvec
    \/ steps_evaluate
    \/ steps_return

SpecSteps == StepsInit /\ [][StepsNext]_vars

\* The gradients of the layers 1..k in construction order.
RECURSIVE gparams_upto(_, _)
gparams_upto(k, rows) ==
    IF k = 0 THEN <<>> ELSE gparams_upto(k - 1, rows) \o layer_gparams(layers[k], rows)

\* The backward pass of the running batch_train has returned.
BackpropDone == \E j \in 1..Len(bt.trace) : bt.trace[j] = "backprop"
UpdateDone == \E j \in 1..Len(bt.trace) : bt.trace[j] = "update"

\* C12: after a successful backprop gparams is aligned position by position
\* with params: the backward pass has visited every layer once, in reverse
\* construction order with the softmax layer first, gparams is the
\* concatenation of the layers' gradients in construction order, and the
\* update of batch_train pairs every parameter with its own gradient, for
\* zero, one, two and three hidden layers, with and without bias.
C12_GparamsAlignedWithParams ==
    /\ BackpropDone =>
          /\ gparams # None
          /\ Len(gparams[1]) = Len(params)
          /\ \A i \in 1..Len(params) : gparams[1][i].name = params[i].name
          /\ bt.visits = [j \in 1..Len(layers) |-> Len(layers) + 1 - j]
          /\ layers[bt.visits[1]].kind = "softmax"
          /\ gparams[1] = gparams_upto(Len(layers), Len(bt.xb))
    /\ UpdateDone =>
          /\ Len(bt.pairs) = Len(params)
          /\ \A i \in 1..Len(bt.pairs) :
                /\ bt.pairs[i].gparam = bt.pairs[i].param
                /\ bt.pairs[i].param = param_names[i]

\* The update of a network with two hidden layers and biases: six parameters,
\* the layers visited from the softmax layer back to the first hidden layer.
C12_Witness ==
    /\ UpdateDone
    /\ Len(n_hs) = 2
    /\ use_bias
    /\ bt.visits = <<3, 2, 1>>
    /\ Len(bt.pairs) = 6
    /\ bt.pairs[1].param = "hidden1_w"
    /\ bt.pairs[6].gparam = "softmax_b"

IsPrefix(s, t) == Len(s) <= Len(t) /\ s = SubSeq(t, 1, Len(s))

\* C13: training is sequential.  A batch_train starts with its forward pass
\* and runs forward, backprop, update in this order; the parameters are
\* written by the update only, after the forward and the backprop of the
\* same batch; the forward pass of a minibatch sees the parameters of the
\* update of the minibatch before it (as many updates as batch_train calls
\* have returned); and the evaluation at the end of an epoch runs after the
\* update of the epoch's last batch_train.
C13_TrainingIsSequential ==
    [][/\ (bt.pc = "idle" /\ bt'.pc # "idle") => bt'.pc = "forward"
       /\ IsPrefix(bt'.trace, <<"forward", "backprop", "update", "wordvec">>)
       /\ params' # params =>
             /\ bt.pc = "update"
             /\ bt.trace = <<"forward", "backprop">>
             /\ bt'.version = bt.version + 1
       /\ (bt.pc = "forward" /\ bt'.pc # "forward") =>
             /\ bt.version = bt.done
             /\ bt'.read = bt.done
       /\ (pc = "evaluate" /\ bt.pc = "idle") =>
             /\ Len(trained) >= 1
             /\ bt.trace = <<"forward", "backprop", "update", "wordvec">>
             /\ bt.version = bt.done
             /\ bt.done = (mt.epoch - 1) * Len(trained) + Len(trained)
      ]_vars

\* The forward pass of the first minibatch of a second epoch has read the
\* parameters of the last update of the first epoch.
C13_Witness ==
    /\ bt.trace = <<"forward">>
    /\ mt.epoch = 2
    /\ bt.done >= 2
    /\ bt.read = bt.done

====
